---- MODULE Spec2Model ----
(***************************************************************************)
(* Plan store of the Planner MCP server (src/src/database.ts).             *)
(*                                                                         *)
(* PlannerDatabase keeps two tables, plans and steps, behind ONE sqlite    *)
(* connection (this.db).  Every public method is a sequence of statements  *)
(* sent to that connection, separated by awaits.  The model has            *)
(*   - one operator per statement (beginTransaction, insertStep, ...),     *)
(*   - one operator per method that executes the method's next statement   *)
(*     (createStep, completeStep, failStep, ...),                          *)
(*   - Spec:     methods called one at a time, each run to its return,     *)
(*   - ConcSpec: several callers whose statements interleave on the        *)
(*               shared connection.                                        *)
(***************************************************************************)
EXTENDS Integers, Sequences, FiniteSets, TLC

\* ------------------------------------------------------------------ bounds
MaxPlans   == 2      \* plan ids are 1..MaxPlans
MaxSteps   == 3      \* step ids are 1..MaxSteps
MaxCallers == 2      \* concurrent callers of the store (ConcSpec), one call each
MaxRacers  == 3      \* concurrent callers working on one plan (RaceSpec)
MaxPage     == 3     \* listPlans: page is in 1..MaxPage
MaxPageSize == 2     \* listPlans: pageSize is in 1..MaxPageSize

PlanIds == 1..MaxPlans
StepIds == 1..MaxSteps
Callers == 1..MaxCallers
Racers  == 1..MaxRacers

\* SQL NULL / JS null for an id column, and for a text column.
Null     == 0
NullText == "null"

PlanNames        == {"n1"}
PlanDescriptions == {"p1"}
Descriptions     == {"d1"}
Conditions       == {"c1"}
Contexts         == {"x1", "x2"}

VARIABLES
    conn,    \* the sqlite connection: [db, inTx, snap]
    proc,    \* ConcSpec, RaceSpec: each caller's method in flight
    db0      \* ConcSpec, RaceSpec: the tables when the callers start

vars == <<conn, proc, db0>>

\* ------------------------------------------------------------ the database
EmptyDb == [plans |-> <<>>, steps |-> <<>>]

PlanExists(db, planId) == planId \in DOMAIN db.plans
StepExists(db, stepId) == stepId \in DOMAIN db.steps

StepsOf(db, planId) == {s \in DOMAIN db.steps : db.steps[s].plan_id = planId}

InProgressOf(db, planId) ==
    {s \in StepsOf(db, planId) : db.steps[s].status = "in_progress"}

MaxOrder(db, planId) ==
    LET S == StepsOf(db, planId)
    IN  IF S = {} THEN Null
        ELSE CHOOSE m \in {db.steps[s].step_order : s \in S} :
                 \A s \in S : db.steps[s].step_order <= m

\* ORDER BY step_order ASC LIMIT 1 over the step ids S.
FirstByOrder(db, S) ==
    IF S = {} THEN Null
    ELSE CHOOSE s \in S : \A u \in S : db.steps[s].step_order <= db.steps[u].step_order

\* What a method hands back for a step row, a plan row, or nothing.
StepResult(db, stepId) ==
    IF stepId = Null THEN [kind |-> "absent"]
    ELSE [kind |-> "step", id |-> stepId, row |-> db.steps[stepId]]

PlanResult(db, planId) == [kind |-> "plan", id |-> planId, row |-> db.plans[planId]]

\* generateReadableId(): a random name.  It is either new to the table or
\* collides with a stored id; ids are opaque, so one new id stands for all.
Fresh(used, all) ==
    IF all \ used = {} THEN {}
    ELSE {CHOOSE i \in all \ used : \A j \in all \ used : i <= j}

generateReadableId(used, all) == used \cup Fresh(used, all)

\* A plan id a caller passes: a stored one, or one that is not stored (the
\* last such id, so that generateReadableId may or may not produce it later).
Unknown(used, all) ==
    IF all \ used = {} THEN {}
    ELSE {CHOOSE i \in all \ used : \A j \in all \ used : i >= j}

PlanArgs(db) == DOMAIN db.plans \cup Unknown(DOMAIN db.plans, PlanIds)

\* ---------------------------------------------------- connection statements
\* Each statement takes the connection and returns [ok, c, val].
Ok(c, v)  == [ok |-> TRUE,  c |-> c, val |-> v]
Err(c, e) == [ok |-> FALSE, c |-> c, val |-> e]

Write(c, db) == [c EXCEPT !.db = db]

\* BEGIN TRANSACTION: sqlite refuses a BEGIN inside an open transaction.
beginTransaction(c) ==
    IF c.inTx THEN Err(c, "begin:transaction within a transaction")
    ELSE Ok([c EXCEPT !.inTx = TRUE, !.snap = c.db], Null)

\* COMMIT: sqlite refuses when no transaction is active.
commitTransaction(c) ==
    IF ~c.inTx THEN Err(c, "commit:no transaction is active")
    ELSE Ok([c EXCEPT !.inTx = FALSE, !.snap = EmptyDb], Null)

\* ROLLBACK taken for COMMIT: the transaction ends and its rows stay.
rollbackKeepingRows(c) ==
    IF ~c.inTx THEN Err(c, "rollback:no transaction is active")
    ELSE Ok([c EXCEPT !.inTx = FALSE, !.snap = EmptyDb], Null)

\* ROLLBACK: restores the state at BEGIN; refused when no transaction is active.
rollbackTransaction(c) ==
    IF ~c.inTx THEN Err(c, "rollback:no transaction is active")
    ELSE Ok([db |-> c.snap, inTx |-> FALSE, snap |-> EmptyDb], Null)

\* The subselect written with COUNT(*) in place of MAX(step_order).
NextStepOrderByCount(db, planId) == Cardinality(StepsOf(db, planId)) + 1

\* The subselect written without WHERE plan_id = ?.
NextStepOrderAnyPlan(db, planId) ==
    IF DOMAIN db.steps = {} THEN 1
    ELSE 1 + CHOOSE m \in {db.steps[s].step_order : s \in DOMAIN db.steps} :
                 \A s \in DOMAIN db.steps : db.steps[s].step_order <= m

\* The subselect written without its + 1.
NextStepOrderAtMax(db, planId) == MaxOrder(db, planId)

\* (SELECT COALESCE(MAX(step_order), 0) + 1 FROM steps WHERE plan_id = ?)
NextStepOrder(db, planId) == MaxOrder(db, planId) + 1

\* The statement written INSERT OR REPLACE: a row with the id is replaced.
insertOrReplaceStep(c, stepId, planId, description, completionCondition, completionContext) ==
    Ok(Write(c, [c.db EXCEPT !.steps =
           [s \in DOMAIN @ \cup {stepId} |->
               IF s = stepId
               THEN [plan_id              |-> planId,
                     description          |-> description,
                     completion_condition |-> completionCondition,
                     status               |-> "in_progress",
                     step_order           |-> NextStepOrder(c.db, planId),
                     completion_context   |-> completionContext]
               ELSE @[s]]]), 1)

\* INSERT INTO steps ...: id is the PRIMARY KEY; status defaults to in_progress;
\* the connection never turns foreign_keys on, so plan_id is not checked.
\* (created_at, a default no statement reads or orders by, is left out.)
insertStep(c, stepId, planId, description, completionCondition, completionContext) ==
    IF StepExists(c.db, stepId) THEN Err(c, "insert:UNIQUE constraint failed: steps.id")
    ELSE Ok(Write(c, [c.db EXCEPT !.steps = @ @@ (stepId :>
               [plan_id              |-> planId,
                description          |-> description,
                completion_condition |-> completionCondition,
                status               |-> "in_progress",
                step_order           |-> NextStepOrder(c.db, planId),
                completion_context   |-> completionContext])]), 1)

\* UPDATE plans SET active_step_id = ? WHERE id = ?   (no row: no change)
setActiveStep(c, planId, stepId) ==
    IF PlanExists(c.db, planId)
    THEN Ok(Write(c, [c.db EXCEPT !.plans[planId].active_step_id = stepId]), Null)
    ELSE Ok(c, Null)

\* The count written with AND status = 'in_progress'.
getStepCountInProgress(c, planId) == Ok(c, Cardinality(InProgressOf(c.db, planId)))

\* SELECT COUNT(*) as count FROM steps WHERE plan_id = ?
getStepCount(c, planId) == Ok(c, Cardinality(StepsOf(c.db, planId)))

\* SELECT * FROM steps WHERE id = ?  followed by the isStep guard.
ReadBackStep(c, stepId) ==
    IF StepExists(c.db, stepId) THEN Ok(c, StepResult(c.db, stepId))
    ELSE Err(c, "Failed to retrieve created step")

\* The query written as a lookup of the step plans.active_step_id names.
getActiveStepByPointer(c, planId) ==
    Ok(c, StepResult(c.db,
           IF PlanExists(c.db, planId) /\ StepExists(c.db, c.db.plans[planId].active_step_id)
           THEN c.db.plans[planId].active_step_id ELSE Null))

\* SELECT ... WHERE plan_id = ? AND status = "in_progress" ORDER BY step_order ASC LIMIT 1
getActiveStep(c, planId) ==
    Ok(c, StepResult(c.db, FirstByOrder(c.db, InProgressOf(c.db, planId))))

\* SELECT plan_id FROM steps WHERE id = ?
getPlanForStep(c, stepId) ==
    IF StepExists(c.db, stepId) THEN Ok(c, c.db.steps[stepId].plan_id)
    ELSE Err(c, "Invalid plan ID for step")

\* getNextStep without "AND status = 'in_progress'".
getNextStepAnyStatus(c, planId, currentStepId) ==
    IF ~StepExists(c.db, currentStepId) THEN Ok(c, Null)
    ELSE Ok(c, FirstByOrder(c.db,
               {s \in StepsOf(c.db, planId) :
                   c.db.steps[s].step_order > c.db.steps[currentStepId].step_order}))

\* getNextStep written with ORDER BY step_order DESC.
getNextStepDescending(c, planId, currentStepId) ==
    IF ~StepExists(c.db, currentStepId) THEN Ok(c, Null)
    ELSE LET S == {s \in InProgressOf(c.db, planId) :
                      c.db.steps[s].step_order > c.db.steps[currentStepId].step_order}
         IN  Ok(c, IF S = {} THEN Null
                   ELSE CHOOSE s \in S :
                            \A u \in S : c.db.steps[s].step_order >= c.db.steps[u].step_order)

\* in_progress steps of the plan with step_order > that of currentStepId, first
\* by step_order; the subselect is NULL (no row qualifies) when the step is gone.
getNextStep(c, planId, currentStepId) ==
    IF ~StepExists(c.db, currentStepId) THEN Ok(c, Null)
    ELSE Ok(c, FirstByOrder(c.db,
               {s \in InProgressOf(c.db, planId) :
                   c.db.steps[s].step_order > c.db.steps[currentStepId].step_order}))

\* The update written without WHERE id = ?.
markEveryStepCompleted(c, stepId, completionContext) ==
    Ok(Write(c, [c.db EXCEPT !.steps =
           [s \in DOMAIN @ |-> [@[s] EXCEPT !.status = "completed",
                                            !.completion_context = completionContext]]]), Null)

\* The update written with status = "in_progress".
markStepReopened(c, stepId, completionContext) ==
    IF StepExists(c.db, stepId)
    THEN Ok(Write(c, [c.db EXCEPT !.steps[stepId].status = "in_progress",
                                  !.steps[stepId].completion_context = completionContext]), Null)
    ELSE Ok(c, Null)

\* The update written without its status column.
markStepContextOnly(c, stepId, completionContext) ==
    IF StepExists(c.db, stepId)
    THEN Ok(Write(c, [c.db EXCEPT !.steps[stepId].completion_context = completionContext]), Null)
    ELSE Ok(c, Null)

\* UPDATE steps SET status = "completed", completion_context = ? WHERE id = ?
markStepCompleted(c, stepId, completionContext) ==
    IF StepExists(c.db, stepId)
    THEN Ok(Write(c, [c.db EXCEPT !.steps[stepId].status = "completed",
                                  !.steps[stepId].completion_context = completionContext]), Null)
    ELSE Ok(c, Null)

\* The update written with status = "completed".
MarkStepFailedAsCompleted(c, stepId) ==
    IF StepExists(c.db, stepId)
    THEN Ok(Write(c, [c.db EXCEPT !.steps[stepId].status = "completed"]), Null)
    ELSE Ok(c, Null)

\* UPDATE steps SET status = "failed" WHERE id = ?
MarkStepFailed(c, stepId) ==
    IF StepExists(c.db, stepId)
    THEN Ok(Write(c, [c.db EXCEPT !.steps[stepId].status = "failed"]), Null)
    ELSE Ok(c, Null)

\* The update written with step_order >= ?.
ShiftFromFailed(c, planId, order) ==
    Ok(Write(c, [c.db EXCEPT !.steps =
           [s \in DOMAIN @ |->
               IF @[s].plan_id = planId /\ @[s].step_order >= order
               THEN [@[s] EXCEPT !.step_order = @ + 1]
               ELSE @[s]]]), Null)

\* The update written with step_order - 1.
ShiftSubsequentDown(c, planId, order) ==
    Ok(Write(c, [c.db EXCEPT !.steps =
           [s \in DOMAIN @ |->
               IF @[s].plan_id = planId /\ @[s].step_order > order
               THEN [@[s] EXCEPT !.step_order = @ - 1]
               ELSE @[s]]]), Null)

\* UPDATE steps SET step_order = step_order + 1 WHERE plan_id = ? AND step_order > ?
ShiftSubsequent(c, planId, order) ==
    Ok(Write(c, [c.db EXCEPT !.steps =
           [s \in DOMAIN @ |->
               IF @[s].plan_id = planId /\ @[s].step_order > order
               THEN [@[s] EXCEPT !.step_order = @ + 1]
               ELSE @[s]]]), Null)

\* LoadStepToFail without the row.active_step_id !== stepId guard.
LoadStepToFailAnyStep(c, stepId) ==
    IF ~StepExists(c.db, stepId) \/ ~PlanExists(c.db, c.db.steps[stepId].plan_id)
    THEN Err(c, "Step not found")
    ELSE IF c.db.steps[stepId].status # "in_progress"
    THEN Err(c, "Can only fail steps that are in progress")
    ELSE Ok(c, c.db.steps[stepId])

\* SELECT steps.*, plans.active_step_id FROM steps JOIN plans ... WHERE steps.id = ?
\* and the guards of its callback; val is the loaded row.
LoadStepToFail(c, stepId) ==
    IF ~StepExists(c.db, stepId) \/ ~PlanExists(c.db, c.db.steps[stepId].plan_id)
    THEN Err(c, "Step not found")
    ELSE IF c.db.plans[c.db.steps[stepId].plan_id].active_step_id # stepId
    THEN Err(c, "Can only fail the current active step")
    ELSE IF c.db.steps[stepId].status # "in_progress"
    THEN Err(c, "Can only fail steps that are in progress")
    ELSE Ok(c, c.db.steps[stepId])

\* INSERT INTO plans (id, name, description) VALUES (?, ?, ?)
InsertPlan(c, planId, name, description, t) ==
    IF PlanExists(c.db, planId) THEN Err(c, "insert:UNIQUE constraint failed: plans.id")
    ELSE Ok(Write(c, [c.db EXCEPT !.plans = @ @@ (planId :>
               [name           |-> name,
                description    |-> description,
                created_at     |-> t,
                active_step_id |-> Null])]), Null)

\* SELECT * FROM plans WHERE id = ?
SelectPlan(c, planId) ==
    IF PlanExists(c.db, planId) THEN Ok(c, PlanResult(c.db, planId))
    ELSE Ok(c, [kind |-> "absent"])

\* ORDER BY step_order ASC over the step ids S: the steps, least order first.
\* (sqlite leaves the order of rows with equal step_order open; the model
\* takes one of them.)
RECURSIVE ByStepOrder(_, _)
ByStepOrder(db, S) ==
    IF S = {} THEN <<>>
    ELSE LET s == FirstByOrder(db, S)
         IN  <<[id |-> s, row |-> db.steps[s]]>> \o ByStepOrder(db, S \ {s})

\* The query written without WHERE plan_id = ?.
SelectStepsOfAllPlans(c, planId) ==
    Ok(c, [kind |-> "steps", rows |-> ByStepOrder(c.db, DOMAIN c.db.steps)])

\* SELECT * FROM steps WHERE plan_id = ? ORDER BY step_order ASC
SelectSteps(c, planId) ==
    Ok(c, [kind |-> "steps", rows |-> ByStepOrder(c.db, StepsOf(c.db, planId))])

\* SELECT COUNT(*) as count FROM plans
SelectPlanCount(c) == Ok(c, Cardinality(DOMAIN c.db.plans))

\* ORDER BY created_at DESC over the plan ids S: the plans, newest first.
RECURSIVE NewestFirst(_, _)
NewestFirst(db, S) ==
    IF S = {} THEN <<>>
    ELSE LET n == CHOOSE x \in S : \A y \in S : db.plans[x].created_at >= db.plans[y].created_at
         IN  <<PlanResult(db, n)>> \o NewestFirst(db, S \ {n})

\* const offset = page * pageSize, pages counted from 0.
PageOffsetFromZero(page, pageSize) == page * pageSize

\* const offset = (page - 1) * pageSize
PageOffset(page, pageSize) == (page - 1) * pageSize

\* SELECT * FROM plans ORDER BY created_at DESC LIMIT ? OFFSET ?
\* (sqlite: a negative LIMIT is no limit, a negative OFFSET is 0)
SelectPlanPage(c, limit, offset) ==
    LET all  == NewestFirst(c.db, DOMAIN c.db.plans)
        from == IF offset < 0 THEN 1 ELSE offset + 1
        to   == IF limit < 0 \/ from + limit - 1 > Len(all) THEN Len(all)
                ELSE from + limit - 1
    IN  Ok(c, SubSeq(all, from, to))

\* --------------------------------------------------------------- the methods
\* A method in flight: its arguments, its locals and the statement it is at.
NoResult == [kind |-> "none"]
Failed   == [kind |-> "error"]

NewCall(op, pc, planId, stepId, description, condition, ctx, genId) ==
    [op |-> op, pc |-> pc, planId |-> planId, stepId |-> stepId,
     description |-> description, condition |-> condition, ctx |-> ctx,
     genId |-> genId, fOrder |-> Null, val |-> NoResult, err |-> "", ret |-> NoResult]

Idle == NewCall("none", "idle", Null, Null, NullText, NullText, NullText, Null)

At(p, pc)  == [p EXCEPT !.pc = pc]
Return(p, v) == [p EXCEPT !.pc = "done", !.ret = v]
Reject(p, e) == [p EXCEPT !.pc = "done", !.err = e, !.ret = Failed]
\* a rejected await inside try: control goes to the catch block
Catch(p, e) == [p EXCEPT !.pc = "rollback", !.err = e]

Then(r, p, pc) == [c |-> r.c, p |-> IF r.ok THEN At(p, pc) ELSE Catch(p, r.val)]

\* The catch block written as catch (error) { throw error; }.
CatchBlockRethrowOnly(c, p) == [c |-> c, p |-> Reject(p, p.err)]

\* The catch block made to repeat the ROLLBACK until it is accepted.
CatchBlockRetrying(c, p) ==
    LET r == rollbackTransaction(c)
    IN  [c |-> r.c, p |-> IF r.ok THEN Reject(p, p.err) ELSE p]

\* catch (error) { await this.rollbackTransaction(); throw error; }
\* A rejected rollback throws out of the catch block in place of `error`.
CatchBlock(c, p) ==
    LET r == rollbackTransaction(c)
    IN  [c |-> r.c, p |-> Reject(p, IF r.ok THEN p.err ELSE r.val)]

\* in: what the environment supplies to a statement: in.t, the clock's reading,
\* and in.g, the name generateReadableId() returns.
createStep(c, p, in) ==
    CASE p.pc = "begin" -> Then(beginTransaction(c), p, "insertStep")
      [] p.pc = "insertStep" ->
            Then(insertStep(c, p.genId, p.planId, p.description, p.condition, p.ctx),
                 p, "getStepCount")
      [] p.pc = "getStepCount" ->
            LET r == getStepCount(c, p.planId)
            IN  Then(r, p, IF r.val = 1 THEN "setActiveStep" ELSE "readBack")
      [] p.pc = "setActiveStep" -> Then(setActiveStep(c, p.planId, p.genId), p, "readBack")
      [] p.pc = "readBack" ->
            LET r == ReadBackStep(c, p.genId)
            IN  Then(r, IF r.ok THEN [p EXCEPT !.val = r.val] ELSE p, "commit")
      [] p.pc = "commit" ->
            LET r == commitTransaction(c)
            IN  [c |-> r.c, p |-> IF r.ok THEN Return(p, p.val) ELSE Catch(p, r.val)]
      [] p.pc = "rollback" -> CatchBlock(c, p)

completeStep(c, p, in) ==
    CASE p.pc = "begin" -> Then(beginTransaction(c), p, "markStepCompleted")
      [] p.pc = "markStepCompleted" ->
            Then(markStepCompleted(c, p.stepId, p.ctx), p, "getPlanForStep")
      [] p.pc = "getPlanForStep" ->
            LET r == getPlanForStep(c, p.stepId)
            IN  Then(r, IF r.ok THEN [p EXCEPT !.planId = r.val] ELSE p, "getNextStep")
      [] p.pc = "getNextStep" ->
            LET r == getNextStep(c, p.planId, p.stepId)
            IN  Then(r, [p EXCEPT !.val = StepResult(c.db, r.val)], "setActiveStep")
      [] p.pc = "setActiveStep" ->
            \* nextStep?.id || null
            Then(setActiveStep(c, p.planId,
                               IF p.val.kind = "step" THEN p.val.id ELSE Null),
                 p, "commit")
      [] p.pc = "commit" ->
            LET r == commitTransaction(c)
            IN  [c |-> r.c, p |-> IF r.ok THEN Return(p, p.val) ELSE Catch(p, r.val)]
      [] p.pc = "rollback" -> CatchBlock(c, p)

failStep(c, p, in) ==
    CASE p.pc = "begin" -> Then(beginTransaction(c), p, "loadStep")
      [] p.pc = "loadStep" ->
            LET r == LoadStepToFail(c, p.stepId)
            IN  Then(r, IF r.ok THEN [p EXCEPT !.planId = r.val.plan_id,
                                               !.fOrder = r.val.step_order]
                        ELSE p, "markFailed")
      [] p.pc = "markFailed" -> Then(MarkStepFailed(c, p.stepId), p, "shift")
      [] p.pc = "shift" -> Then(ShiftSubsequent(c, p.planId, p.fOrder), p, "insertStep")
      [] p.pc = "insertStep" ->
            \* const newStepId = generateReadableId()
            Then(insertStep(c, in.g, p.planId, p.description, p.condition, NullText),
                 [p EXCEPT !.genId = in.g], "setActiveStep")
      [] p.pc = "setActiveStep" -> Then(setActiveStep(c, p.planId, p.genId), p, "readBack")
      [] p.pc = "readBack" ->
            LET r == ReadBackStep(c, p.genId)
            IN  Then(r, IF r.ok THEN [p EXCEPT !.val = r.val] ELSE p, "commit")
      [] p.pc = "commit" ->
            LET r == commitTransaction(c)
            IN  [c |-> r.c,
                 p |-> IF r.ok
                       THEN Return(p, [kind |-> "failed", failed_step_id |-> p.stepId,
                                       new_step |-> p.val])
                       ELSE Catch(p, r.val)]
      [] p.pc = "rollback" -> CatchBlock(c, p)

\* createPlan has no transaction of its own: INSERT, then SELECT in its callback.
createPlan(c, p, in) ==
    CASE p.pc = "insertPlan" ->
            LET r == InsertPlan(c, p.genId, p.description, p.condition, in.t)
            IN  [c |-> r.c, p |-> IF r.ok THEN At(p, "readBack") ELSE Reject(p, r.val)]
      [] p.pc = "readBack" ->
            LET r == SelectPlan(c, p.genId)
            IN  [c |-> c, p |-> IF r.val.kind = "plan" THEN Return(p, r.val)
                                ELSE Reject(p, "Failed to retrieve created plan")]

\* getPlan made to repair the pointer it reads: it stores the plan's first
\* in_progress step in active_step_id before the SELECT.
getPlanRepairing(c, p, in) ==
    LET w == setActiveStep(c, p.planId, FirstByOrder(c.db, InProgressOf(c.db, p.planId))).c
    IN  [c |-> w, p |-> Return(p, SelectPlan(w, p.planId).val)]

getPlan(c, p, in) == [c |-> c, p |-> Return(p, SelectPlan(c, p.planId).val)]

getActiveStepCall(c, p, in) == [c |-> c, p |-> Return(p, getActiveStep(c, p.planId).val)]

listSteps(c, p, in) == [c |-> c, p |-> Return(p, SelectSteps(c, p.planId).val)]

\* listPlans: the COUNT, then in its callback the page; no transaction.
listPlans(c, p, in) ==
    CASE p.pc = "count" ->
            [c |-> c, p |-> At([p EXCEPT !.val = SelectPlanCount(c).val], "select")]
      [] p.pc = "select" ->
            [c |-> c,
             p |-> Return(p, [kind  |-> "plans",
                              plans |-> SelectPlanPage(c, p.pageSize,
                                            PageOffset(p.page, p.pageSize)).val,
                              total |-> p.val])]

\* The next statement of the method in flight, executed on the connection.
Statement(c, p, in) ==
    CASE p.op = "createPlan"    -> createPlan(c, p, in)
      [] p.op = "createStep"    -> createStep(c, p, in)
      [] p.op = "completeStep"  -> completeStep(c, p, in)
      [] p.op = "failStep"      -> failStep(c, p, in)
      [] p.op = "getPlan"       -> getPlan(c, p, in)
      [] p.op = "getActiveStep" -> getActiveStepCall(c, p, in)
      [] p.op = "listSteps"     -> listSteps(c, p, in)
      [] p.op = "listPlans"     -> listPlans(c, p, in)

\* A method run from its first statement to its return, nothing in between.
RECURSIVE Run(_, _, _)
Run(c, p, in) ==
    IF p.pc = "done" THEN [c |-> c, p |-> p]
    ELSE LET r == Statement(c, p, in) IN Run(r.c, r.p, in)

\* ------------------------------------------------ arguments and environment
\* handleCreateStep calls createStep(plan_id, description, completion_condition):
\* completionContext takes its default, null.
CreateContexts == {NullText}

\* A step id a caller passes: a stored one, or one that is not stored.
StepArgs(db) == generateReadableId(DOMAIN db.steps, StepIds)

CreatePlanCalls(db) ==
    {NewCall("createPlan", "insertPlan", Null, Null, n, d, NullText, g) :
        n \in PlanNames, d \in PlanDescriptions,
        g \in generateReadableId(DOMAIN db.plans, PlanIds)}

CreateStepCalls(db) ==
    {NewCall("createStep", "begin", pl, Null, d, cc, x, g) :
        pl \in PlanArgs(db), d \in Descriptions, cc \in Conditions,
        x \in CreateContexts, g \in generateReadableId(DOMAIN db.steps, StepIds)}

CompleteStepCalls(db) ==
    {NewCall("completeStep", "begin", Null, s, NullText, NullText, x, Null) :
        s \in StepArgs(db), x \in Contexts}

FailStepCalls(db) ==
    {NewCall("failStep", "begin", Null, s, d, cc, NullText, Null) :
        s \in StepArgs(db), d \in Descriptions, cc \in Conditions}

ReadCalls(db, op) ==
    {NewCall(op, "select", pl, Null, NullText, NullText, NullText, Null) :
        pl \in PlanArgs(db)}

WriteCalls(db) ==
    CreateStepCalls(db) \cup CompleteStepCalls(db) \cup FailStepCalls(db)

\* listPlans(page, pageSize): the call record with the two arguments added.
ListPlansCalls ==
    {NewCall("listPlans", "count", Null, Null, NullText, NullText, NullText, Null)
        @@ [page |-> page, pageSize |-> pageSize] :
        page \in 1..MaxPage, pageSize \in 1..MaxPageSize}

AllReadCalls(db) ==
    ReadCalls(db, "getPlan") \cup ReadCalls(db, "getActiveStep") \cup ReadCalls(db, "listSteps")

\* strftime('%Y-%m-%dT%H:%M:%fZ', 'now'): a reading later than every stored
\* created_at (successive inserts get successive readings).
Times(db) ==
    LET stamps == {db.plans[pl].created_at : pl \in DOMAIN db.plans}
    IN  IF stamps = {} THEN {1}
        ELSE {1 + CHOOSE m \in stamps : \A x \in stamps : x <= m}

\* What the environment may supply to the statements of call p.
Inputs(db, p) ==
    [t : IF p.op = "createPlan" THEN Times(db) ELSE {0},
     g : IF p.op = "failStep" THEN generateReadableId(DOMAIN db.steps, StepIds)
         ELSE {Null}]

\* ------------------------------------------------- Spec: one call at a time
EmptyConn == [db |-> EmptyDb, inTx |-> FALSE, snap |-> EmptyDb]

Init ==
    /\ conn = EmptyConn
    /\ proc = [i \in Callers |-> Idle]
    /\ db0 = EmptyDb

Call(p) ==
    \E in \in Inputs(conn.db, p) :
        LET r == Run(conn, p, in)
        IN  /\ conn' = r.c
            /\ UNCHANGED <<proc, db0>>

CreatePlan    == \E p \in CreatePlanCalls(conn.db) : Call(p)
CreateStep    == \E p \in CreateStepCalls(conn.db) : Call(p)
CompleteStep  == \E p \in CompleteStepCalls(conn.db) : Call(p)
FailStep      == \E p \in FailStepCalls(conn.db) : Call(p)
GetPlan       == \E p \in ReadCalls(conn.db, "getPlan") : Call(p)
GetActiveStep == \E p \in ReadCalls(conn.db, "getActiveStep") : Call(p)
ListSteps     == \E p \in ReadCalls(conn.db, "listSteps") : Call(p)
ListPlans     == \E p \in ListPlansCalls : Call(p)

Next ==
    \/ CreatePlan
    \/ CreateStep
    \/ CompleteStep
    \/ FailStep
    \/ GetPlan
    \/ GetActiveStep
    \/ ListSteps
    \/ ListPlans

Spec == Init /\ [][Next]_vars

\* ------------------------------------ ConcSpec: interleaved statements
\* The request handler is async: a tool call that arrives while another is
\* awaiting a statement starts its own method on the same connection.
InFlight(i) == proc[i].pc \notin {"idle", "done"}
AllReturned == \A i \in Callers : proc[i].pc = "done"

\* The calls that fill the tables before the callers start, one at a time:
\* plan 1 with steps 1 and 2, plan 2 with step 3.
Setup ==
    << NewCall("createPlan", "insertPlan", Null, Null, "n1", "p1", NullText, 1),
       NewCall("createStep", "begin", 1, Null, "d1", "c1", NullText, 1),
       NewCall("createStep", "begin", 1, Null, "d1", "c1", NullText, 2),
       NewCall("createPlan", "insertPlan", Null, Null, "n1", "p1", NullText, 2),
       NewCall("createStep", "begin", 2, Null, "d1", "c1", NullText, 3) >>

RECURSIVE RunAll(_, _)
RunAll(c, calls) ==
    IF calls = <<>> THEN c
    ELSE RunAll(Run(c, Head(calls), CHOOSE in \in Inputs(c.db, Head(calls)) : TRUE).c,
                Tail(calls))

InitConc ==
    /\ \E k \in 0..Len(Setup) : conn = RunAll(EmptyConn, SubSeq(Setup, 1, k))
    /\ db0 = conn.db
    /\ proc = [i \in Callers |-> Idle]

\* The calls that write.  (A read changes nothing on the connection, so no
\* other call can tell whether it ran; what a read would return at any moment
\* is ReadNow, below.)
AllCalls(db) == CreatePlanCalls(db) \cup WriteCalls(db)

\* Caller i calls a method while the calls of other callers may be in flight.
\* An async method runs synchronously up to its first await, so the call hands
\* the method's first statement to the connection; the rest of the method
\* continues, one statement at a time, in Execute.
\* (Callers are interchangeable: they start in the order of their numbers.)
Invoke(i) ==
    /\ proc[i].pc = "idle"
    /\ \A j \in Callers : j < i => proc[j].pc # "idle"
    /\ \E p \in AllCalls(conn.db) : \E in \in Inputs(conn.db, p) :
          LET r == Statement(conn, p, in)
          IN  /\ conn' = r.c
              /\ proc' = [proc EXCEPT ![i] = r.p]
    /\ UNCHANGED db0

\* The connection executes the next statement of caller i's method, after the
\* await of the previous one.
Execute(i) ==
    /\ InFlight(i)
    /\ \E in \in Inputs(conn.db, proc[i]) :
          LET r == Statement(conn, proc[i], in)
          IN  /\ conn' = r.c
              /\ proc' = [proc EXCEPT ![i] = r.p]
    /\ UNCHANGED db0

ConcNext == \E i \in Callers : Invoke(i) \/ Execute(i)

ConcSpec == InitConc /\ [][ConcNext]_vars

\* ------------------------------------------------------- claims under Spec
\* The outcomes [c, p] a call p can have from the current state.
Outcomes(p) == {Run(conn, p, in) : in \in Inputs(conn.db, p)}

\* The step is one failStep accepts: stored, its plan stored and pointing at it,
\* and in_progress.
Failable(db, stepId) ==
    /\ StepExists(db, stepId)
    /\ PlanExists(db, db.steps[stepId].plan_id)
    /\ db.plans[db.steps[stepId].plan_id].active_step_id = stepId
    /\ db.steps[stepId].status = "in_progress"

\* What a successful failStep has just done to the steps table.
FailedNow ==
    {s \in DOMAIN conn.db.steps :
        conn.db.steps[s].status = "in_progress" /\ conn'.db.steps[s].status = "failed"}

InsertedNow == DOMAIN conn'.db.steps \ DOMAIN conn.db.steps

\* Only failStep turns a step from in_progress to failed.
FailStepSucceeds == FailedNow # {}

\* C1: after a successful failStep on the step with step_order k, the replacement
\* step has step_order k + 1 and status in_progress, whatever other steps the
\* plan holds.
C1_ReplacementOrder ==
    [][FailStepSucceeds =>
          \A f \in FailedNow : \A n \in InsertedNow :
              /\ conn'.db.steps[n].step_order = conn.db.steps[f].step_order + 1
              /\ conn'.db.steps[n].status = "in_progress"]_vars

\* C2: right after a successful failStep, getActiveStep of the plan returns the
\* replacement step, the step active_step_id names.
C2_ActiveIsReplacement ==
    [][FailStepSucceeds =>
          \A f \in FailedNow : \A n \in InsertedNow :
              /\ conn'.db.plans[conn.db.steps[f].plan_id].active_step_id = n
              /\ getActiveStep(conn', conn.db.steps[f].plan_id).val
                    = StepResult(conn'.db, n)]_vars

C4_ActiveIsFirstInProgress ==
    \A pl \in DOMAIN conn.db.plans :
        conn.db.plans[pl].active_step_id # Null =>
            getActiveStep(conn, pl).val.kind = "step"
            /\ getActiveStep(conn, pl).val.id = conn.db.plans[pl].active_step_id

\* C10: failStep on a step that is not stored, not its plan's active step, or
\* not in_progress returns an error and leaves every row as it was.
C10_RejectedFailStepChangesNothing ==
    \A p \in FailStepCalls(conn.db) : \A r \in Outcomes(p) :
        ~Failable(conn.db, p.stepId) => r.p.err # "" /\ r.c = conn

\* A plan holds an in_progress step that is not its active step, and failStep
\* on that step is refused with every row left as it was.
C10_Witness ==
    \E p \in FailStepCalls(conn.db) : \E r \in Outcomes(p) :
        /\ StepExists(conn.db, p.stepId)
        /\ conn.db.steps[p.stepId].status = "in_progress"
        /\ PlanExists(conn.db, conn.db.steps[p.stepId].plan_id)
        /\ r.p.err = "Can only fail the current active step"
        /\ r.c = conn

\* --------------------------------------------------- claims under ConcSpec
IsWrite(p) == p.op \in {"createStep", "completeStep", "failStep"}

\* The call as it was invoked: its arguments, no locals.
Invoked(p) ==
    NewCall(p.op,
            IF p.op = "createPlan" THEN "insertPlan" ELSE IF IsWrite(p) THEN "begin" ELSE "select",
            IF p.op \in {"completeStep", "failStep"} THEN Null ELSE p.planId,
            p.stepId, p.description, p.condition, p.ctx,
            IF p.op = "failStep" THEN Null ELSE p.genId)

Conn0 == [db |-> db0, inTx |-> FALSE, snap |-> EmptyDb]

\* What the caller gets: the error or the value.
Returned(p) == [err |-> p.err, ret |-> p.ret]

\* The connections call p can leave when run alone, start to return, from c.
Alone(c, p) == {Run(c, Invoked(p), in) : in \in Inputs(c.db, Invoked(p))}

\* What a read q returns when the connection executes it now.
ReadNow(c, q) == Run(c, q, [t |-> 0, g |-> Null]).p.ret

\* The plan a write call is against.
PlanOfCall(p) ==
    IF p.op = "createStep" THEN p.planId
    ELSE IF StepExists(db0, p.stepId) THEN db0.steps[p.stepId].plan_id
    ELSE Null

\* C5: a read issued while a createStep, completeStep or failStep is in flight
\* returns what it would return before that call began or after it committed.
C5_ReadsSeeNoPartialState ==
    \A w \in Callers :
        (/\ InFlight(w) /\ IsWrite(proc[w])
         /\ \A o \in Callers \ {w} : proc[o].pc = "idle")
        => \A q \in AllReadCalls(conn.db) :
              \/ ReadNow(conn, q) = ReadNow(Conn0, q)
              \/ \E r \in Alone(Conn0, proc[w]) : ReadNow(conn, q) = ReadNow(r.c, q)

\* Both calls ran one after the other from the initial tables, i first.
Serial(i, j) ==
    \E ri \in Alone(Conn0, proc[i]) : \E rj \in Alone(ri.c, proc[j]) :
        /\ conn.db = rj.c.db
        /\ Returned(proc[i]) = Returned(ri.p)
        /\ Returned(proc[j]) = Returned(rj.p)

\* C6: two calls on the same plan, however their statements interleave, leave
\* the rows and return the values of one of their two sequential executions.
C6_SamePlanSerializable ==
    \A i, j \in Callers :
        (/\ i # j /\ AllReturned
         /\ IsWrite(proc[i]) /\ IsWrite(proc[j])
         /\ PlanOfCall(proc[i]) # Null
         /\ PlanOfCall(proc[i]) = PlanOfCall(proc[j]))
        => Serial(i, j) \/ Serial(j, i)

\* The plan's row and its steps.
PlanRows(db, pl) ==
    [plan  |-> IF PlanExists(db, pl) THEN <<db.plans[pl]>> ELSE <<>>,
     steps |-> [s \in StepsOf(db, pl) |-> db.steps[s]]]

\* C7: a call on plan P returns, and does to P's rows, what it does when run
\* alone, however its statements interleave with those of a call on another
\* plan Q.
C7_OtherPlansIndependent ==
    \A i, j \in Callers :
        (/\ i # j /\ AllReturned
         /\ IsWrite(proc[i]) /\ IsWrite(proc[j])
         /\ PlanExists(db0, PlanOfCall(proc[i]))
         /\ PlanExists(db0, PlanOfCall(proc[j]))
         /\ PlanOfCall(proc[i]) # PlanOfCall(proc[j])
         /\ (proc[i].genId = Null \/ proc[i].genId # proc[j].genId))
        => \E r \in Alone(Conn0, proc[i]) :
              /\ Returned(proc[i]) = Returned(r.p)
              /\ PlanRows(conn.db, PlanOfCall(proc[i]))
                    = PlanRows(r.c.db, PlanOfCall(proc[i]))

\* The rows call p writes are stored as it wrote them / are as they were.
OwnWritesStored(db, p) ==
    CASE p.op = "createStep"   -> StepExists(db, p.genId)
      [] p.op = "completeStep" ->
            /\ StepExists(db, p.stepId)
            /\ db.steps[p.stepId].status = "completed"
            /\ db.steps[p.stepId].completion_context = p.ctx
      [] p.op = "failStep"     ->
            /\ StepExists(db, p.stepId) /\ db.steps[p.stepId].status = "failed"
            /\ StepExists(db, p.genId)

OwnWritesAbsent(db, p) ==
    CASE p.op = "createStep"   -> StepExists(db, p.genId) => StepExists(db0, p.genId)
      [] p.op = "completeStep" ->
            StepExists(db0, p.stepId) =>
                StepExists(db, p.stepId) /\ db.steps[p.stepId] = db0.steps[p.stepId]
      [] p.op = "failStep"     ->
            /\ StepExists(db0, p.stepId) =>
                  StepExists(db, p.stepId) /\ db.steps[p.stepId] = db0.steps[p.stepId]
            /\ p.genId # Null /\ StepExists(db, p.genId) => StepExists(db0, p.genId)

\* The step ids a call names or generates.
Touched(p) == {p.stepId, p.genId} \ {Null}

\* C8: once every call has returned, a call that returned an error has none of
\* its writes stored and a call that returned a value has all of them stored.
C8_AllOrNothing ==
    (/\ AllReturned
     /\ \A i, j \in Callers : i # j => Touched(proc[i]) \cap Touched(proc[j]) = {})
    => \A i \in Callers :
          IsWrite(proc[i]) =>
              IF proc[i].err = "" THEN OwnWritesStored(conn.db, proc[i])
              ELSE OwnWritesAbsent(conn.db, proc[i])

\* C9: under every interleaving of createStep calls (and any other calls), no two
\* stored steps of one plan have the same step_order.
C9_OrdersDistinct ==
    \A s, u \in DOMAIN conn.db.steps :
        (s # u /\ conn.db.steps[s].plan_id = conn.db.steps[u].plan_id)
        => conn.db.steps[s].step_order # conn.db.steps[u].step_order

\* Two createStep calls for one plan are in flight at once: one has inserted
\* its step inside its transaction, the other has issued its BEGIN and has yet
\* to return.
C9_Witness ==
    \E i, j \in Callers :
        /\ i # j
        /\ proc[i].op = "createStep" /\ proc[j].op = "createStep"
        /\ proc[i].planId = proc[j].planId
        /\ proc[i].pc = "getStepCount" /\ StepExists(conn.db, proc[i].genId)
        /\ InFlight(j)
        /\ Cardinality(StepsOf(conn.db, proc[i].planId)) >= 2

\* ------------------------------------------ claims under Spec: the methods
\* The outcomes of call p in which it returned a value.
Successes(p) == {r \in Outcomes(p) : r.p.err = ""}

\* The step ids the outcome r stores that the current tables do not.
NewSteps(r) == DOMAIN r.c.db.steps \ DOMAIN conn.db.steps

\* C11: a successful failStep on the step with step_order k leaves that step at
\* k, adds 1 to the step_order of every other step of the plan whose order was
\* greater than k, and leaves the order of every other stored step as it was.
C11_FailStepShift ==
    \A p \in FailStepCalls(conn.db) : \A r \in Successes(p) :
        LET f == conn.db.steps[p.stepId]
        IN  \A s \in DOMAIN conn.db.steps :
                /\ StepExists(r.c.db, s)
                /\ r.c.db.steps[s].step_order =
                      IF s # p.stepId /\ conn.db.steps[s].plan_id = f.plan_id
                                     /\ conn.db.steps[s].step_order > f.step_order
                      THEN conn.db.steps[s].step_order + 1
                      ELSE conn.db.steps[s].step_order

\* failStep succeeds on a step that has a later step in its plan: the later
\* step moves up by one and the failed step keeps its order.
C11_Witness ==
    \E p \in FailStepCalls(conn.db) : \E r \in Successes(p) :
        \E s \in StepsOf(conn.db, conn.db.steps[p.stepId].plan_id) :
            /\ conn.db.steps[s].step_order > conn.db.steps[p.stepId].step_order
            /\ r.c.db.steps[s].step_order = conn.db.steps[s].step_order + 1
            /\ r.c.db.steps[p.stepId].step_order = conn.db.steps[p.stepId].step_order

\* C12: a successful failStep turns its target from in_progress to failed, adds
\* exactly one step, to the target's plan, in_progress, with null
\* completion_context and the description and condition supplied, points the
\* plan's active_step_id at it, and returns the failed id with the new step.
C12_FailStepEffect ==
    \A p \in FailStepCalls(conn.db) : \A r \in Successes(p) :
        LET pl == conn.db.steps[p.stepId].plan_id
        IN  /\ conn.db.steps[p.stepId].status = "in_progress"
            /\ r.c.db.steps[p.stepId].status = "failed"
            /\ Cardinality(NewSteps(r)) = 1
            /\ \A n \in NewSteps(r) :
                  /\ r.c.db.steps[n].plan_id = pl
                  /\ r.c.db.steps[n].status = "in_progress"
                  /\ r.c.db.steps[n].completion_context = NullText
                  /\ r.c.db.steps[n].description = p.description
                  /\ r.c.db.steps[n].completion_condition = p.condition
                  /\ r.c.db.plans[pl].active_step_id = n
                  /\ r.p.ret = [kind |-> "failed", failed_step_id |-> p.stepId,
                                new_step |-> StepResult(r.c.db, n)]

\* failStep succeeds while another plan holds steps of its own: the one new
\* step belongs to the failed step's plan.
C12_Witness ==
    \E p \in FailStepCalls(conn.db) : \E r \in Successes(p) :
        /\ \E s \in DOMAIN conn.db.steps :
              conn.db.steps[s].plan_id # conn.db.steps[p.stepId].plan_id
        /\ \E n \in NewSteps(r) :
              r.c.db.plans[conn.db.steps[p.stepId].plan_id].active_step_id = n
\* C13: after every call, createStep calls for unknown plans included, every
\* stored step's plan_id is the id of a stored plan.
C13_StepsBelongToPlans ==
    \A s \in DOMAIN conn.db.steps : PlanExists(conn.db, conn.db.steps[s].plan_id)
\* The steps whose status is completed or failed.
Terminal(db) == {s \in DOMAIN db.steps : db.steps[s].status # "in_progress"}

\* C14: no call changes the status of a completed or failed step, nor the
\* completion_context of a completed step; completeStep on such a step leaves
\* both as they were.
C14_TerminalStepsFrozen ==
    [][\A s \in Terminal(conn.db) :
          /\ StepExists(conn'.db, s)
          /\ conn'.db.steps[s].status = conn.db.steps[s].status
          /\ conn.db.steps[s].status = "completed" =>
                conn'.db.steps[s].completion_context = conn.db.steps[s].completion_context]_vars

\* C15: no call turns a completed or failed step back to in_progress: a step
\* that is not in_progress after one call is not in_progress after any later one.
C15_NeverBackToInProgress ==
    [][\A s \in Terminal(conn.db) :
          StepExists(conn'.db, s) /\ conn'.db.steps[s].status # "in_progress"]_vars

\* completeStep is applied to a failed step and returns: the step is written
\* again, and is still not in_progress.
C15_Witness ==
    \E p \in CompleteStepCalls(conn.db) : \E r \in Successes(p) :
        /\ StepExists(conn.db, p.stepId)
        /\ conn.db.steps[p.stepId].status = "failed"
        /\ r.c.db.steps[p.stepId] # conn.db.steps[p.stepId]
        /\ r.c.db.steps[p.stepId].status # "in_progress"
\* C16: when completeStep returns no next step and the plan's active_step_id is
\* null, the plan holds no in_progress step.
C16_AbsentMeansNoneLeft ==
    \A p \in CompleteStepCalls(conn.db) : \A r \in Successes(p) :
        LET pl == conn.db.steps[p.stepId].plan_id
        IN  (/\ PlanExists(r.c.db, pl)
             /\ r.p.ret.kind = "absent"
             /\ r.c.db.plans[pl].active_step_id = Null)
            => InProgressOf(r.c.db, pl) = {}

\* The in_progress steps of the plan of stepId that come after it in the order.
LaterInProgress(db, stepId) ==
    {s \in InProgressOf(db, db.steps[stepId].plan_id) \ {stepId} :
        db.steps[s].step_order > db.steps[stepId].step_order}

\* C17: a successful completeStep(stepId, ctx) stores status completed and
\* completion_context ctx on the step, points the owning plan's active_step_id
\* at the in_progress step of the plan with the smallest step_order greater than
\* the step's, or at null when there is none, and returns that step (or absent).
C17_CompleteStepEffect ==
    \A p \in CompleteStepCalls(conn.db) : \A r \in Successes(p) :
        LET pl    == conn.db.steps[p.stepId].plan_id
            later == LaterInProgress(conn.db, p.stepId)
        IN  /\ r.c.db.steps[p.stepId].status = "completed"
            /\ r.c.db.steps[p.stepId].completion_context = p.ctx
            /\ IF later = {}
               THEN /\ r.p.ret = [kind |-> "absent"]
                    /\ PlanExists(conn.db, pl) => r.c.db.plans[pl].active_step_id = Null
               ELSE \E n \in later :
                    /\ \A u \in later :
                          conn.db.steps[n].step_order <= conn.db.steps[u].step_order
                    /\ r.p.ret = StepResult(r.c.db, n)
                    /\ PlanExists(conn.db, pl) => r.c.db.plans[pl].active_step_id = n

\* completeStep succeeds on a step of a stored plan that has two in_progress
\* steps after it: the pointer goes to the nearer one.
C17_Witness ==
    \E p \in CompleteStepCalls(conn.db) : \E r \in Successes(p) :
        /\ PlanExists(conn.db, conn.db.steps[p.stepId].plan_id)
        /\ Cardinality(LaterInProgress(conn.db, p.stepId)) >= 2
        /\ r.c.db.plans[conn.db.steps[p.stepId].plan_id].active_step_id
              \in LaterInProgress(conn.db, p.stepId)

\* C18: completeStep, whatever it returns, changes no step's step_order, changes
\* status and completion_context of no step but its target, and stores in a
\* plan's active_step_id only the id of an in_progress step.
C18_CompleteStepFrame ==
    \A p \in CompleteStepCalls(conn.db) : \A r \in Outcomes(p) :
        /\ DOMAIN r.c.db.steps = DOMAIN conn.db.steps
        /\ DOMAIN r.c.db.plans = DOMAIN conn.db.plans
        /\ \A s \in DOMAIN conn.db.steps :
              /\ r.c.db.steps[s].step_order = conn.db.steps[s].step_order
              /\ s # p.stepId =>
                    /\ r.c.db.steps[s].status = conn.db.steps[s].status
                    /\ r.c.db.steps[s].completion_context = conn.db.steps[s].completion_context
        /\ \A pl \in DOMAIN conn.db.plans :
              LET a == r.c.db.plans[pl].active_step_id
              IN  (a # conn.db.plans[pl].active_step_id /\ a # Null) =>
                      StepExists(r.c.db, a) /\ r.c.db.steps[a].status = "in_progress"

\* completeStep succeeds on one of three stored steps and moves its plan's
\* pointer to another step.
C18_Witness ==
    \E p \in CompleteStepCalls(conn.db) : \E r \in Successes(p) :
        LET pl == conn.db.steps[p.stepId].plan_id
        IN  /\ Cardinality(DOMAIN conn.db.steps) >= 3
            /\ PlanExists(conn.db, pl)
            /\ r.c.db.plans[pl].active_step_id \notin {Null, conn.db.plans[pl].active_step_id}

\* The step_order values in use in the plan.
OrdersOf(db, planId) == {db.steps[s].step_order : s \in StepsOf(db, planId)}

\* C19: a successful createStep gives the new step step_order = 1 + the largest
\* step_order among the plan's steps (1 when it has none); so a plan that has
\* seen createStep calls only (all its steps are in_progress) has the orders
\* 1, 2, ..., n.
C19_CreateStepOrder ==
    /\ \A p \in CreateStepCalls(conn.db) : \A r \in Successes(p) :
          \A n \in NewSteps(r) :
              /\ r.c.db.steps[n].plan_id = p.planId
              /\ \A m \in OrdersOf(conn.db, p.planId) : r.c.db.steps[n].step_order > m
              /\ \/ r.c.db.steps[n].step_order = 1 /\ StepsOf(conn.db, p.planId) = {}
                 \/ r.c.db.steps[n].step_order - 1 \in OrdersOf(conn.db, p.planId)
    /\ \A pl \in PlanIds :
          InProgressOf(conn.db, pl) = StepsOf(conn.db, pl)
              => OrdersOf(conn.db, pl) = 1..Cardinality(StepsOf(conn.db, pl))

\* createStep succeeds on a plan that holds two steps: the third step of the
\* plan gets step_order 3.
C19_Witness ==
    \E p \in CreateStepCalls(conn.db) : \E r \in Successes(p) :
        /\ Cardinality(StepsOf(conn.db, p.planId)) = 2
        /\ \E n \in NewSteps(r) : r.c.db.steps[n].step_order = 3

\* C20: a successful createStep points the plan's active_step_id at the new step
\* exactly when the plan had no step before the call, leaves it as it was
\* otherwise, and changes status, step_order and completion_context of no
\* stored step.
C20_CreateStepActive ==
    \A p \in CreateStepCalls(conn.db) : \A r \in Successes(p) :
        /\ Cardinality(NewSteps(r)) = 1
        /\ PlanExists(conn.db, p.planId) =>
              \A n \in NewSteps(r) :
                  r.c.db.plans[p.planId].active_step_id =
                      IF StepsOf(conn.db, p.planId) = {} THEN n
                      ELSE conn.db.plans[p.planId].active_step_id
        /\ \A s \in DOMAIN conn.db.steps :
              /\ r.c.db.steps[s].status = conn.db.steps[s].status
              /\ r.c.db.steps[s].step_order = conn.db.steps[s].step_order
              /\ r.c.db.steps[s].completion_context = conn.db.steps[s].completion_context

\* createStep succeeds on a stored plan whose only step is completed, so that
\* its active_step_id is null, and on a stored plan without steps.
C20_Witness ==
    /\ \E p \in CreateStepCalls(conn.db) : \E r \in Successes(p) :
          /\ PlanExists(conn.db, p.planId)
          /\ StepsOf(conn.db, p.planId) # {}
          /\ conn.db.plans[p.planId].active_step_id = Null
          /\ r.c.db.plans[p.planId].active_step_id = Null
    /\ \E p \in CreateStepCalls(conn.db) : \E r \in Successes(p) :
          /\ PlanExists(conn.db, p.planId)
          /\ StepsOf(conn.db, p.planId) = {}
          /\ r.c.db.plans[p.planId].active_step_id \in NewSteps(r)
\* ------------------------------------------- claims under Spec: the reads
\* A read of plan planId, as a caller issues it.
ReadOf(op, planId) ==
    NewCall(op, "select", planId, Null, NullText, NullText, NullText, Null)

\* C21: getActiveStep(planId) returns absent exactly when the plan has no
\* in_progress step, and otherwise the plan's in_progress step with the least
\* step_order, as the row is stored.
C21_GetActiveStepResult ==
    \A pl \in PlanIds :
        LET res == ReadNow(conn, ReadOf("getActiveStep", pl))
        IN  IF InProgressOf(conn.db, pl) = {}
            THEN res = [kind |-> "absent"]
            ELSE /\ res.kind = "step"
                 /\ res.id \in InProgressOf(conn.db, pl)
                 /\ res.row = conn.db.steps[res.id]
                 /\ \A u \in InProgressOf(conn.db, pl) :
                       conn.db.steps[res.id].step_order <= conn.db.steps[u].step_order

\* One plan has a completed first step and two in_progress steps after it, of
\* which getActiveStep returns the earlier; another stored plan has no step and
\* getActiveStep returns absent for it.
C21_Witness ==
    /\ \E pl \in DOMAIN conn.db.plans :
          LET res == ReadNow(conn, ReadOf("getActiveStep", pl))
          IN  /\ Cardinality(InProgressOf(conn.db, pl)) = 2
              /\ \E s \in StepsOf(conn.db, pl) :
                    conn.db.steps[s].status = "completed" /\ conn.db.steps[s].step_order = 1
              /\ res.kind = "step" /\ res.row.step_order = 2
    /\ \E pl \in DOMAIN conn.db.plans :
          /\ StepsOf(conn.db, pl) = {}
          /\ ReadNow(conn, ReadOf("getActiveStep", pl)).kind = "absent"
\* ------------------------------- RaceSpec: several callers, one plan
\* The callers of ConcSpec, one more of them, all working on the first plan of
\* Setup: tool calls that name the plan or one of its steps.
RacePlan == 1

RaceInit ==
    /\ conn = RunAll(EmptyConn, SubSeq(Setup, 1, 3))
    /\ db0 = conn.db
    /\ proc = [i \in Racers |-> Idle]

RaceCalls(db) ==
    {p \in WriteCalls(db) :
        IF p.op = "createStep" THEN p.planId = RacePlan
        ELSE p.stepId \in StepsOf(db, RacePlan)}

\* As Invoke, for a call on the plan.
RaceInvoke(i) ==
    /\ proc[i].pc = "idle"
    /\ \A j \in Racers : j < i => proc[j].pc # "idle"
    /\ \E p \in RaceCalls(conn.db) : \E in \in Inputs(conn.db, p) :
          LET r == Statement(conn, p, in)
          IN  /\ conn' = r.c
              /\ proc' = [proc EXCEPT ![i] = r.p]
    /\ UNCHANGED db0

RaceNext == \E i \in Racers : RaceInvoke(i) \/ Execute(i)

RaceSpec == RaceInit /\ [][RaceNext]_vars

\* The rows that are committed: those a ROLLBACK would leave.
Committed(c) == IF c.inTx THEN c.snap ELSE c.db

\* C22: in every state, a committed step whose status is not completed has a
\* null completion_context.
C22_ContextOnlyWhenCompleted ==
    \A s \in DOMAIN Committed(conn).steps :
        Committed(conn).steps[s].status # "completed"
            => Committed(conn).steps[s].completion_context = NullText
\* ------------------------------------------ claims about errors
\* C23: with calls one at a time, a createStep, completeStep or failStep that
\* returns an error leaves every plan row and every step row as it was.
C23_ErrorLeavesRows ==
    \A p \in WriteCalls(conn.db) : \A r \in Outcomes(p) :
        r.p.err # "" => r.c.db = conn.db /\ ~r.c.inTx

\* failStep is accepted, marks its step, shifts, and is then refused by the
\* INSERT of the replacement (the generated id is taken); completeStep is refused
\* for a step id that is not stored.  Neither leaves a trace.
C23_Witness ==
    /\ \E p \in FailStepCalls(conn.db) : \E r \in Outcomes(p) :
          /\ Failable(conn.db, p.stepId)
          /\ r.p.err = "insert:UNIQUE constraint failed: steps.id"
          /\ r.c = conn
    /\ \E p \in CompleteStepCalls(conn.db) : \E r \in Outcomes(p) :
          /\ ~StepExists(conn.db, p.stepId)
          /\ r.p.err = "Invalid plan ID for step"
          /\ r.c = conn

\* C24: the error a createStep, completeStep or failStep returns is the error of
\* the statement that failed, the one its catch block was entered with, and not
\* an error of the ROLLBACK the catch block executes.
C24_OriginalErrorReturned ==
    [][\A i \in Callers :
          (proc[i].pc = "rollback" /\ proc'[i].pc = "done")
              => proc'[i].err = proc[i].err]_vars
\* ------------------------------------------ claims under Spec: the lists
\* The place of a stored plan when the plans are ranked newest first.
Rank(db, planId) ==
    1 + Cardinality({q \in DOMAIN db.plans :
                        db.plans[q].created_at > db.plans[planId].created_at})

DistinctCreatedAt(db) ==
    \A x, y \in DOMAIN db.plans : x # y => db.plans[x].created_at # db.plans[y].created_at

\* C25: with N stored plans of distinct created_at, listPlans(page, pageSize),
\* page >= 1 and pageSize >= 1, returns total = N and exactly the plans ranked
\* (page-1)*pageSize + 1 .. min(page*pageSize, N), newest first.
C25_ListPlansPage ==
    DistinctCreatedAt(conn.db) =>
        \A q \in ListPlansCalls :
            LET res   == ReadNow(conn, q)
                N     == Cardinality(DOMAIN conn.db.plans)
                first == (q.page - 1) * q.pageSize + 1
                last  == IF q.page * q.pageSize < N THEN q.page * q.pageSize ELSE N
            IN  /\ res.kind = "plans"
                /\ res.total = N
                /\ Len(res.plans) = IF last >= first THEN last - first + 1 ELSE 0
                /\ \A k \in 1..Len(res.plans) :
                      /\ PlanExists(conn.db, res.plans[k].id)
                      /\ res.plans[k].row = conn.db.plans[res.plans[k].id]
                      /\ Rank(conn.db, res.plans[k].id) = first + k - 1

\* Two plans are stored: page 2 of size 1 holds the older plan alone, page 1 of
\* size 2 holds both, and page 2 of size 2 is empty, each with total 2.
C25_Witness ==
    /\ Cardinality(DOMAIN conn.db.plans) = 2
    /\ \E q \in ListPlansCalls :
          /\ q.page = 2 /\ q.pageSize = 1
          /\ Len(ReadNow(conn, q).plans) = 1
          /\ Rank(conn.db, ReadNow(conn, q).plans[1].id) = 2
          /\ ReadNow(conn, q).total = 2
    /\ \E q \in ListPlansCalls :
          q.page = 1 /\ q.pageSize = 2 /\ Len(ReadNow(conn, q).plans) = 2
    /\ \E q \in ListPlansCalls :
          q.page = 2 /\ q.pageSize = 2 /\ Len(ReadNow(conn, q).plans) = 0

\* C26: listSteps(planId) returns every stored step of the plan once, whatever
\* its status, no step of another plan, in non-decreasing step_order.
C26_ListStepsComplete ==
    \A pl \in PlanIds :
        LET rows == ReadNow(conn, ReadOf("listSteps", pl)).rows
        IN  /\ {rows[k].id : k \in 1..Len(rows)} = StepsOf(conn.db, pl)
            /\ Len(rows) = Cardinality(StepsOf(conn.db, pl))
            /\ \A k \in 1..Len(rows) : rows[k].row = conn.db.steps[rows[k].id]
            /\ \A j, k \in 1..Len(rows) :
                  j < k => rows[j].row.step_order <= rows[k].row.step_order

\* A plan holds a failed, a completed and an in_progress step, and listSteps
\* returns the three.
C26_Witness ==
    \E pl \in DOMAIN conn.db.plans :
        /\ {conn.db.steps[s].status : s \in StepsOf(conn.db, pl)}
              = {"failed", "completed", "in_progress"}
        /\ Len(ReadNow(conn, ReadOf("listSteps", pl)).rows) = 3

\* C27: getPlan, listPlans, getActiveStep and listSteps change no row, and
\* getPlan or listSteps called again with no write in between returns what it
\* returned the first time.
C27_ReadsChangeNothing ==
    \A q \in AllReadCalls(conn.db) \cup ListPlansCalls : \A r \in Outcomes(q) :
        /\ r.c = conn
        /\ r.p.err = ""
        /\ \A r2 \in {Run(r.c, q, in) : in \in Inputs(r.c.db, q)} :
              r2.p.ret = r.p.ret /\ r2.c = conn

\* A stored plan whose pointer does not name its first in_progress step is read
\* by getPlan, and its two or more steps by listSteps, twice with one result.
C27_Witness ==
    \E pl \in DOMAIN conn.db.plans :
        /\ conn.db.plans[pl].active_step_id
              # FirstByOrder(conn.db, InProgressOf(conn.db, pl))
        /\ \E r \in Outcomes(ReadOf("getPlan", pl)) :
              /\ r.p.ret = PlanResult(conn.db, pl)
              /\ Run(r.c, ReadOf("getPlan", pl), [t |-> 0, g |-> Null]).p.ret = r.p.ret
        /\ \E r \in Outcomes(ReadOf("listSteps", pl)) :
              /\ Len(r.p.ret.rows) >= 2
              /\ Run(r.c, ReadOf("listSteps", pl), [t |-> 0, g |-> Null]).p.ret = r.p.ret
\* C28: a stored plan or step stays stored under its id; no call changes a
\* plan's name or description or a step's plan_id, description or
\* completion_condition; and step_order is changed by failStep alone.
C28_RowsKeepIdentity ==
    [][/\ \A pl \in DOMAIN conn.db.plans :
             /\ PlanExists(conn'.db, pl)
             /\ conn'.db.plans[pl].name = conn.db.plans[pl].name
             /\ conn'.db.plans[pl].description = conn.db.plans[pl].description
       /\ \A s \in DOMAIN conn.db.steps :
             /\ StepExists(conn'.db, s)
             /\ conn'.db.steps[s].plan_id = conn.db.steps[s].plan_id
             /\ conn'.db.steps[s].description = conn.db.steps[s].description
             /\ conn'.db.steps[s].completion_condition = conn.db.steps[s].completion_condition
             /\ conn'.db.steps[s].step_order # conn.db.steps[s].step_order
                   => FailStepSucceeds]_vars

\* failStep has shifted a step of a plan that holds a failed and a completed
\* step: the plan's orders are no longer 1..n, and every step is still there.
C28_Witness ==
    \E pl \in DOMAIN conn.db.plans :
        /\ Cardinality(StepsOf(conn.db, pl)) = 3
        /\ \E s \in StepsOf(conn.db, pl) : conn.db.steps[s].status = "failed"
        /\ \E s \in StepsOf(conn.db, pl) : conn.db.steps[s].status = "completed"
        /\ \E s \in StepsOf(conn.db, pl) : conn.db.steps[s].step_order = 4
\* ------------------------------------------ ConcSpec with fair execution
\* The connection executes every statement handed to it and calls back: a
\* method in flight is not left waiting for its next statement.
FairConcSpec == ConcSpec /\ \A i \in Callers : WF_vars(Execute(i))

\* C29: every call returns to its caller, with a result or with an error,
\* also when its BEGIN, COMMIT or ROLLBACK is refused and other calls are in
\* flight.
C29_EveryCallReturns ==
    \A i \in Callers : (proc[i].pc # "idle") ~> (proc[i].pc = "done")

\* Both callers have returned, one of them after its COMMIT and then its
\* ROLLBACK were refused, the other after its BEGIN was refused.
C29_Witness ==
    \E i, j \in Callers :
        /\ i # j
        /\ proc[i].pc = "done" /\ proc[j].pc = "done"
        /\ proc[i].err = "rollback:no transaction is active"
        /\ proc[j].err = "begin:transaction within a transaction"
\* ------------------------------- claims under Spec: walking through a plan
\* The step of plan planId stored at step_order k.
StepAt(db, planId, k) ==
    CHOOSE s \in StepsOf(db, planId) : db.steps[s].step_order = k

\* Plan planId as n createStep calls and k - 1 completions of its active step
\* leave it: steps at step_order 1..n, those before k completed, the others
\* in_progress, and active_step_id naming the step at k, or null past the end.
Walked(db, planId, n, k) ==
    /\ PlanExists(db, planId)
    /\ Cardinality(StepsOf(db, planId)) = n
    /\ OrdersOf(db, planId) = 1..n
    /\ \A s \in StepsOf(db, planId) :
          db.steps[s].status =
              IF db.steps[s].step_order < k THEN "completed" ELSE "in_progress"
    /\ db.plans[planId].active_step_id =
          IF k <= n THEN StepAt(db, planId, k) ELSE Null

\* C30: on a plan whose steps come from createStep alone, completing the step
\* getActiveStep returns walks the plan in ascending step_order: createStep on
\* a plan not yet walked to its end keeps the plan in that shape with one step
\* more; getActiveStep returns the step at k; completeStep on it succeeds,
\* leaves the plan walked to k + 1, and returns the step that getActiveStep
\* returns next and that active_step_id then names; past the last step every
\* step is completed, active_step_id is null and getActiveStep returns absent.
C30_WalkInOrder ==
    \A pl \in DOMAIN conn.db.plans : \A n \in 0..MaxSteps : \A k \in 1..(n + 1) :
        Walked(conn.db, pl, n, k) =>
            LET act == ReadNow(conn, ReadOf("getActiveStep", pl))
            IN  /\ (k <= n \/ n = 0) =>
                      \A p \in CreateStepCalls(conn.db) : \A r \in Successes(p) :
                          p.planId = pl => Walked(r.c.db, pl, n + 1, k)
                /\ IF k = n + 1
                   THEN /\ act = [kind |-> "absent"]
                        /\ \A s \in StepsOf(conn.db, pl) :
                              conn.db.steps[s].status = "completed"
                        /\ conn.db.plans[pl].active_step_id = Null
                   ELSE /\ act = StepResult(conn.db, StepAt(conn.db, pl, k))
                        /\ \A p \in CompleteStepCalls(conn.db) : \A r \in Outcomes(p) :
                              p.stepId = act.id =>
                                  /\ r.p.err = ""
                                  /\ Walked(r.c.db, pl, n, k + 1)
                                  /\ r.p.ret = ReadNow(r.c, ReadOf("getActiveStep", pl))
                                  /\ r.p.ret = StepResult(r.c.db, r.c.db.plans[pl].active_step_id)

\* A plan of three steps walked to its second step: getActiveStep returns that
\* step, and completing it returns the third, which active_step_id then names.
C30_Witness ==
    \E pl \in DOMAIN conn.db.plans :
        /\ Walked(conn.db, pl, 3, 2)
        /\ \E p \in CompleteStepCalls(conn.db) : \E r \in Successes(p) :
              /\ p.stepId = ReadNow(conn, ReadOf("getActiveStep", pl)).id
              /\ r.p.ret.kind = "step"
              /\ r.p.ret.id = StepAt(conn.db, pl, 3)
              /\ r.c.db.plans[pl].active_step_id = StepAt(conn.db, pl, 3)
\* ------------------------------------ claims under Spec: the order of steps
\* C31: after any sequence of calls made one at a time, the steps of one plan
\* have pairwise distinct step_order values, each at least 1.
C31_OrdersStrict ==
    \A s \in DOMAIN conn.db.steps :
        /\ conn.db.steps[s].step_order >= 1
        /\ \A u \in StepsOf(conn.db, conn.db.steps[s].plan_id) :
              u # s => conn.db.steps[u].step_order # conn.db.steps[s].step_order

\* failStep has acted in the middle of a plan: the failed step is followed by
\* a step it shifted and by the replacement, which the plan names active.
C31_Witness ==
    \E s, u, v \in DOMAIN conn.db.steps :
          /\ conn.db.steps[s].plan_id = conn.db.steps[u].plan_id
          /\ conn.db.steps[s].plan_id = conn.db.steps[v].plan_id
          /\ conn.db.steps[s].status = "failed"
          /\ conn.db.steps[s].step_order < conn.db.steps[u].step_order
          /\ conn.db.steps[u].step_order < conn.db.steps[v].step_order
          /\ PlanExists(conn.db, conn.db.steps[s].plan_id)
          /\ conn.db.plans[conn.db.steps[s].plan_id].active_step_id = v

\* C32: no call lowers the step_order of a stored step, and two steps of one
\* plan stored in ascending step_order stay in that order.
C32_OrderPreserved ==
    [][/\ \A s \in DOMAIN conn.db.steps :
             StepExists(conn'.db, s) =>
                 conn'.db.steps[s].step_order >= conn.db.steps[s].step_order
       /\ \A a, b \in DOMAIN conn.db.steps :
             (/\ conn.db.steps[a].plan_id = conn.db.steps[b].plan_id
              /\ conn.db.steps[a].step_order < conn.db.steps[b].step_order
              /\ StepExists(conn'.db, a) /\ StepExists(conn'.db, b))
             => conn'.db.steps[a].step_order < conn'.db.steps[b].step_order]_vars

\* failStep has shifted a step: the failed step keeps step_order 1 and a step
\* created after it, once at 2, is stored at 3.
C32_Witness ==
    \E s, u \in DOMAIN conn.db.steps :
        /\ conn.db.steps[s].plan_id = conn.db.steps[u].plan_id
        /\ conn.db.steps[s].status = "failed" /\ conn.db.steps[s].step_order = 1
        /\ conn.db.steps[u].status = "in_progress" /\ conn.db.steps[u].step_order = 3
\* ------------------------------- claims under Spec: the pointer of a plan
\* The plan has steps and all of them are completed.
AllCompleted(db, planId) ==
    /\ StepsOf(db, planId) # {}
    /\ \A s \in StepsOf(db, planId) : db.steps[s].status = "completed"

\* C33: a stored plan with an in_progress step has a non-null active_step_id;
\* in particular the step a createStep call stores on a plan whose steps are all
\* completed is named by active_step_id, and failStep accepts it.
C33_InProgressHasActive ==
    /\ \A pl \in DOMAIN conn.db.plans :
          InProgressOf(conn.db, pl) # {} => conn.db.plans[pl].active_step_id # Null
    /\ \A p \in CreateStepCalls(conn.db) : \A r \in Successes(p) :
          (PlanExists(conn.db, p.planId) /\ AllCompleted(conn.db, p.planId)) =>
              /\ r.c.db.plans[p.planId].active_step_id = p.genId
              /\ LoadStepToFail(r.c, p.genId).ok
\* ------------------------------------- claims under ConcSpec: transactions
\* C34: when no call is in flight, no transaction is open on the connection,
\* whatever the interleaving of the callers' statements and whichever of them
\* were refused.
C34_NoOpenTransaction ==
    (\A i \in Callers : ~InFlight(i)) => ~conn.inTx

\* Two calls ran interleaved and both have returned: one committed and returned
\* its value, the other had its BEGIN refused inside the first one's
\* transaction and its ROLLBACK refused after the first one's COMMIT.
C34_Witness ==
    \E i, j \in Callers :
        /\ i # j
        /\ proc[i].pc = "done" /\ proc[i].err = "" /\ IsWrite(proc[i])
        /\ proc[j].pc = "done" /\ proc[j].err = "rollback:no transaction is active"
        /\ ~conn.inTx
====
